---- MODULE Spec2Model ----
(***************************************************************************)
(* A model of the signalforge native store (src/native/jsiStore.{h,cpp}):   *)
(* the SignalValue tagged value, the self-synchronising Signal cell and the *)
(* JSISignalStore registry, run by concurrent threads.  Every lock_guard,   *)
(* every statement that another thread can observe and every callback      *)
(* invocation is a separate step.                                          *)
(***************************************************************************)
EXTENDS Integers, Sequences, FiniteSets, TLC

(* ------------------------------ bounds -------------------------------- *)
\* SpecWrite: createSignal calls and writes the callers ask for
WriteSignals == 1
WriteVersions == 2
\* SpecCount: createSignal calls and writes the callers ask for
CountSignals == 1
CountVersions == 2
\* SpecBatch: createSignal calls and writes the callers ask for
BatchSignals == 2
BatchVersions == 2
\* SpecLife: createSignal calls and writes the callers ask for
LifeSignals == 2
LifeVersions == 1
\* SpecDelete: createSignal calls and writes the callers ask for
DeleteSignals == 2
DeleteVersions == 1
\* SpecIds: createSignal calls the callers ask for
IdSignals == 3
\* SpecLocks: createSignal calls, writes and subscriptions the callers ask for
LockSignals == 1
LockVersions == 1
LockSubscribers == 1
\* SpecClear: createSignal calls and writes the callers ask for
ClearSignals == 2
ClearVersions == 1
\* SpecInFlight: writes and subscriptions the callers ask for
InFlightVersions == 1
InFlightSubscribers == 1
\* SpecLive: writes and subscriptions the callers ask for
LiveVersions == 1
LiveSubscribers == 1
\* SpecSubscribe: writes and subscriptions the callers ask for
SubscribeVersions == 1
SubscribeSubscribers == 2
\* SpecNotify: writes and subscriptions the callers ask for
NotifyVersions == 2
NotifySubscribers == 2
\* bounds of SpecOrder
OrderVersions == 2
OrderSubscribers == 1
\* bounds of SpecFrame
FrameSignals == 2
FrameVersions == 1
FrameSubscribers == 1

\* the calling threads
Threads == {"t1", "t2"}
\* readings of std::chrono::system_clock the id generator may get
Timestamps == {7, 8}
\* one of them
Now == CHOOSE now \in Timestamps : TRUE

NoThread == "none"
NoRef == 0

(* ---------------------------- SignalValue ------------------------------ *)
\* SignalValue::SignalValue()
SignalValueUndefined ==
    [type_ |-> "Undefined", boolValue_ |-> FALSE, numberValue_ |-> 0, stringValue_ |-> ""]

\* SignalValue::SignalValue(double)
SignalValueNumber(n) ==
    [type_ |-> "Number", boolValue_ |-> FALSE, numberValue_ |-> n, stringValue_ |-> ""]

\* SignalValue::SignalValue(const std::string&)
SignalValueString(s) ==
    [type_ |-> "String", boolValue_ |-> FALSE, numberValue_ |-> 0, stringValue_ |-> s]

\* the values callers pass
Values == {SignalValueNumber(42), SignalValueString("hello")}

\* what a subscriber callback does when invoked: return, or throw
Callbacks == {"returns", "throws"}

\* callbacks that call back before they return: into the Signal that is
\* notifying them (getValue, subscribe of a further callback, unsubscribe of
\* themselves), or into the Store (getSignal of the id being written)
ReentrantCallbacks == {"getValue", "subscribe", "unsubscribe", "getSignal"}

(* ------------------------------- state -------------------------------- *)
VARIABLES
    signals_,        \* JSISignalStore::signals_ : id -> shared_ptr<Signal>
    nextSignalId_,   \* JSISignalStore::nextSignalId_
    storeMutex_,     \* holder of JSISignalStore::storeMutex_
    heap,            \* the live Signal objects, by address
    pc,              \* each thread's position
    loc,             \* each thread's arguments, locals and result
    issued,          \* history: the ids createSignal has returned, in order
    out              \* history: the call that returned in the last step

vars == <<signals_, nextSignalId_, storeMutex_, heap, pc, loc, issued, out>>

(* ------------------------------ helpers ------------------------------- *)
Range(f) == {f[x] : x \in DOMAIN f}

Remove(f, k) == [x \in DOMAIN f \ {k} |-> f[x]]

Put(f, k, v) == [x \in DOMAIN f \cup {k} |-> IF x = k THEN v ELSE f[x]]

EmptyMap == [x \in {} |-> 0]

Max(S) == IF S = {} THEN 0 ELSE CHOOSE m \in S : \A x \in S : x <= m

(* ------------------------------- Signal -------------------------------- *)
\* a constructor that default-constructs value_ and ignores its argument
NewSignalDefault(initialValue) ==
    [value_ |-> SignalValueUndefined, version_ |-> 0, nextSubscriberId_ |-> 0,
     subscribers_ |-> EmptyMap, mutex_ |-> NoThread,
     written |-> [val |-> initialValue, n |-> 0, by |-> NoThread],
     returned |-> 0, handed |-> <<>>, unsubscribed |-> EmptyMap,
     notified |-> EmptyMap]

\* Signal::Signal(initialValue); written and returned are history: the
\* value given to the latest write that got as far as the version increment
\* (to the constructor before any), how many writes got that far and whose
\* the latest was, and how many setValue calls have returned; handed and
\* unsubscribed are history too: the ids subscribe has returned, in the order
\* the calls held the lock, and for each of them an unsubscribe has removed
\* the version the Signal had then; notified is history as well, kept where
\* the order of invocations is looked at: for each callback invoked so far,
\* the version made by the write that invoked it last and the value that
\* write passed
NewSignal(initialValue) ==
    [value_ |-> initialValue, version_ |-> 0, nextSubscriberId_ |-> 0,
     subscribers_ |-> EmptyMap, mutex_ |-> NoThread,
     written |-> [val |-> initialValue, n |-> 0, by |-> NoThread],
     returned |-> 0, handed |-> <<>>, unsubscribed |-> EmptyMap,
     notified |-> EmptyMap]

\* a write that takes the lock and bumps the version but drops the assignment
StoreValueDropped(s, newValue) == s

\* a write that assigns a whole new Signal state, subscribers included
StoreValueAndSubscribers(s, newValue) ==
    [s EXCEPT !.value_ = newValue, !.subscribers_ = EmptyMap]

\* value_ = newValue
StoreValue(s, newValue) == [s EXCEPT !.value_ = newValue]

\* a write that marks the Signal changed instead of counting: version_.store(1)
StoreVersionOne(s) == [s EXCEPT !.version_ = 1]

\* an increment by two
FetchAddVersionByTwo(s) == [s EXCEPT !.version_ = @ + 2]

\* version_.fetch_add(1, std::memory_order_release)
FetchAddVersion(s) == [s EXCEPT !.version_ = @ + 1]

\* a version read that runs ahead of the writes and reports an increment that
\* has not happened
getVersionAhead(s) == s.version_ + 1

\* version_.load(std::memory_order_acquire)
getVersion(s) == s.version_

\* an id generator that hands out the lowest id not in the map
NextSubscriberIdLowestFree(s) ==
    CHOOSE id \in 0..Cardinality(DOMAIN s.subscribers_) : id \notin DOMAIN s.subscribers_

\* the value of nextSubscriberId_++
NextSubscriberId(s) == s.nextSubscriberId_

\* a subscribe that takes an id and forgets to store the callback
SubscribeToNothing(s, callback) == [s EXCEPT !.nextSubscriberId_ = @ + 1]

\* size_t id = nextSubscriberId_++; subscribers_[id] = std::move(callback)
SubscribeTo(s, callback) ==
    [s EXCEPT !.subscribers_ = Put(@, NextSubscriberId(s), callback),
              !.nextSubscriberId_ = @ + 1]

\* an unsubscribe that takes the lock and erases nothing
UnsubscribeFromNothing(s, id) == s

\* an erase that empties the map when the id is not in it
UnsubscribeFromOrAll(s, id) ==
    [s EXCEPT !.subscribers_ = IF id \in DOMAIN @ THEN Remove(@, id) ELSE EmptyMap]

\* subscribers_.erase(id)
UnsubscribeFrom(s, id) == [s EXCEPT !.subscribers_ = Remove(@, id)]

\* the callbacks subscribed to s: subscribe has returned their id and no
\* unsubscribe has removed it
Subscribed(s) == Range(s.handed) \ DOMAIN s.unsubscribed

(* ---------------------------- JSISignalStore --------------------------- *)
\* oss << "sig_" << counter << "_" << now
generateSignalId(counter, now) ==
    "sig_" \o ToString(counter) \o "_" \o ToString(now)

\* a counter that clear and deleteSignal leave at zero: an id generator that
\* numbers from the size of an empty map
FetchAddSignalIdReset(counter) == 0

\* nextSignalId_.fetch_add(1, std::memory_order_relaxed)
FetchAddSignalId(counter) == counter + 1

\* signals_.find(signalId): the Signal found, or NoRef for signals_.end()
Find(reg, signalId) == IF signalId \in DOMAIN reg THEN reg[signalId] ELSE NoRef

\* a lookup through signals_[signalId], which inserts a null entry for an
\* absent key
AfterFindInserting(reg, signalId) ==
    IF signalId \in DOMAIN reg THEN reg ELSE Put(reg, signalId, NoRef)

\* what signals_.find leaves of the map
AfterFind(reg, signalId) == reg

\* an erase through signals_.erase(signals_.find(signalId)) that takes some
\* entry out when the key is absent
EraseFoundOrSome(reg, signalId) ==
    IF signalId \in DOMAIN reg \/ DOMAIN reg = {} THEN Remove(reg, signalId)
    ELSE Remove(reg, CHOOSE k \in DOMAIN reg : TRUE)

\* an erase that removes nothing
EraseNothing(reg, signalId) == reg

\* signals_.erase(signalId)
Erase(reg, signalId) == Remove(reg, signalId)

\* a clear that leaves an entry behind
ClearAllButOne(reg) ==
    IF DOMAIN reg = {} THEN reg
    ELSE [k \in {CHOOSE k \in DOMAIN reg : TRUE} |-> reg[k]]

\* signals_.clear()
Clear(reg) == EmptyMap

\* signals_.size()
Size(reg) == Cardinality(DOMAIN reg)

\* the address make_shared<Signal> returns: any free one (the lowest here)
Allocate(h) == CHOOSE r \in 1..(Cardinality(DOMAIN h) + 1) : r \notin DOMAIN h

\* raw pointers in the callers: only the map keeps a Signal alive
HeldByNobody(l) == {}

\* the Signals some thread's shared_ptr still refers to
Held(l) ==
    UNION {{l[t].signal} \cup Range(l[t].signalsToUpdate) : t \in Threads}

\* shared_ptr teardown: a Signal neither the map nor a thread refers to is destroyed
Reap(h, reg, l) ==
    [r \in (DOMAIN h) \cap (Range(reg) \cup Held(l)) |-> h[r]]

\* phase 1 of batchUpdate: the Signals found, in the order of the updates
RECURSIVE FoundSignals(_, _)
FoundSignals(reg, updates) ==
    IF updates = <<>> THEN <<>>
    ELSE LET ref == Find(reg, Head(updates)[1])
         IN  (IF ref # NoRef THEN <<ref>> ELSE <<>>) \o FoundSignals(reg, Tail(updates))

\* a phase 1 that pushes every value, found or not: valuesToSet.push_back(value)
\* outside the if
FoundValuesUnfiltered(reg, updates) == [k \in 1..Len(updates) |-> updates[k][2]]

\* phase 1 of batchUpdate: the values of the pairs whose Signal was found
RECURSIVE FoundValues(_, _)
FoundValues(reg, updates) ==
    IF updates = <<>> THEN <<>>
    ELSE LET ref == Find(reg, Head(updates)[1])
         IN  (IF ref # NoRef THEN <<Head(updates)[2]>> ELSE <<>>)
             \o FoundValues(reg, Tail(updates))

(* --------------------------- thread locals ----------------------------- *)
NoRet == [kind |-> "none", id |-> "", val |-> SignalValueUndefined, num |-> 0, bool |-> FALSE]
RetVoid == [NoRet EXCEPT !.kind = "void"]
RetId(id) == [NoRet EXCEPT !.kind = "id", !.id = id]
RetValue(v) == [NoRet EXCEPT !.kind = "value", !.val = v]
RetNum(n) == [NoRet EXCEPT !.kind = "num", !.num = n]
RetBool(b) == [NoRet EXCEPT !.kind = "bool", !.bool = b]
\* an exception of a subscriber callback leaving setValue
CallbackError == [NoRet EXCEPT !.kind = "CallbackError"]
\* throw std::runtime_error("Signal not found: " + signalId)
NotFound(signalId) == [NoRet EXCEPT !.kind = "NotFound", !.id = signalId]

\* a thread outside every call
Fresh ==
    [op |-> "none", fn |-> "none", signalId |-> "", value |-> SignalValueUndefined,
     updates |-> <<>>, callback |-> "returns", subId |-> 0,
     signal |-> NoRef, signalsToUpdate |-> <<>>, valuesToSet |-> <<>>, i |-> 0,
     subscribersCopy |-> EmptyMap, currentValue |-> SignalValueUndefined,
     todo |-> {}, cb |-> 0, ret |-> NoRet,
     \* history: what batchUpdate found at its lookup, the Signals this call
     \* has written so far, and the version a reader polled before this read
     base |-> EmptyMap, applied |-> <<>>, polled |-> FALSE, seen |-> 0,
     \* history of the setValue in progress: the callbacks subscribed and the
     \* version when it stored the value, the version it made, and the
     \* callbacks it has invoked so far, each with the argument passed
     atWrite |-> {}, versionBefore |-> 0, writeNo |-> 0, delivered |-> <<>>]

\* an id no createSignal returns
UnknownId == "sig_unknown"

\* the ids callers pass: every id handed out so far, and one never handed out
IdArgs == Range(issued) \cup {UnknownId}

\* the batchUpdate arguments: sequences of (id, value) pairs
Batches(longest) ==
    UNION {[1..n -> IdArgs \X Values] : n \in 0..longest}

\* writes a thread has been asked for and has not applied yet
PendingWrites(t) ==
    IF pc[t] \in {"idle", "polled"} THEN 0
    ELSE IF loc[t].op = "setSignal" THEN 1
    ELSE IF loc[t].op = "batchUpdate"
         THEN IF pc[t] = "inStore" THEN Len(loc[t].updates)
              ELSE Len(loc[t].signalsToUpdate) - loc[t].i
    ELSE 0

RECURSIVE SumPending(_)
SumPending(S) ==
    IF S = {} THEN 0
    ELSE LET t == CHOOSE x \in S : TRUE IN PendingWrites(t) + SumPending(S \ {t})

\* writes a run may still ask for under cap
Room(cap) ==
    cap - Max({heap[r].version_ : r \in DOMAIN heap}) - SumPending(Threads)

\* room left under cap for n more writes
CanWrite(n, cap) == n <= Room(cap)

\* createSignal calls in flight that have not taken their counter value yet
CreatesInFlight ==
    Cardinality({t \in Threads : pc[t] = "inStore" /\ loc[t].op = "createSignal"})

\* subscribe calls in flight on Signal r
SubscribesInFlight(r) ==
    Cardinality({t \in Threads :
                    /\ loc[t].signal = r
                    /\ \/ pc[t] # "idle" /\ loc[t].fn = "subscribe"
                       \/ /\ pc[t] \in {"cb_lockEntry", "cb_inSignal"}
                          /\ loc[t].subscribersCopy[loc[t].cb] = "subscribe"})

\* no call returned in the last step
NoOut == [thread |-> NoThread, call |-> Fresh]

(* -------------------------------- Init --------------------------------- *)
\* JSISignalStore::JSISignalStore() : nextSignalId_(0), an empty map
Init ==
    /\ signals_ = EmptyMap
    /\ nextSignalId_ = 0
    /\ storeMutex_ = NoThread
    /\ heap = EmptyMap
    /\ pc = [t \in Threads |-> "idle"]
    /\ loc = [t \in Threads |-> Fresh]
    /\ issued = <<>>
    /\ out = NoOut

\* the state a first createSignal(undefined) on the new Store returns into
InitOneSignal ==
    /\ signals_ = Put(EmptyMap, generateSignalId(0, Now), Allocate(EmptyMap))
    /\ nextSignalId_ = FetchAddSignalId(0)
    /\ storeMutex_ = NoThread
    /\ heap = Put(EmptyMap, Allocate(EmptyMap), NewSignal(SignalValueUndefined))
    /\ pc = [t \in Threads |-> "idle"]
    /\ loc = [t \in Threads |-> Fresh]
    /\ issued = <<generateSignalId(0, Now)>>
    /\ out = NoOut

(* ------------------------- calls (a thread starts) --------------------- *)
\* thread t enters a Store method with locals l and takes storeMutex_:
\* std::lock_guard<std::mutex> lock(storeMutex_)
CallStore(t, l) ==
    /\ pc[t] = "idle"
    /\ storeMutex_ = NoThread
    /\ storeMutex_' = t
    /\ pc' = [pc EXCEPT ![t] = "inStore"]
    /\ loc' = [loc EXCEPT ![t] = l]
    /\ out' = NoOut
    /\ UNCHANGED <<signals_, nextSignalId_, heap, issued>>

\* where a Signal method continues once it holds mutex_
AfterLockEntry(fn) ==
    CASE fn = "getValue" -> "getValue"
      [] fn = "setValue" -> "setValue_store"
      [] fn = "subscribe" -> "subscribe"
      [] fn = "unsubscribe" -> "unsubscribe"

\* thread t enters a method of Signal l.signal with locals l and takes mutex_:
\* std::lock_guard<std::mutex> lock(mutex_)
CallSignal(t, l) ==
    /\ pc[t] = "idle"
    /\ heap[l.signal].mutex_ = NoThread
    /\ heap' = [heap EXCEPT ![l.signal].mutex_ = t]
    /\ pc' = [pc EXCEPT ![t] = AfterLockEntry(l.fn)]
    /\ loc' = [loc EXCEPT ![t] = l]
    /\ out' = NoOut
    /\ UNCHANGED <<signals_, nextSignalId_, storeMutex_, issued>>

\* the calls; cap bounds how many Signals, writes or subscriptions a run asks for
createSignalCall(t, initialValue, cap) ==
    /\ nextSignalId_ + CreatesInFlight < cap
    /\ CallStore(t, [Fresh EXCEPT !.op = "createSignal", !.value = initialValue])

getSignalCall(t, signalId) ==
    CallStore(t, [Fresh EXCEPT !.op = "getSignal", !.signalId = signalId])

setSignalCall(t, signalId, value, cap) ==
    /\ CanWrite(1, cap)
    /\ CallStore(t, [Fresh EXCEPT !.op = "setSignal", !.signalId = signalId,
                                  !.value = value])

hasSignalCall(t, signalId) ==
    CallStore(t, [Fresh EXCEPT !.op = "hasSignal", !.signalId = signalId])

deleteSignalCall(t, signalId) ==
    CallStore(t, [Fresh EXCEPT !.op = "deleteSignal", !.signalId = signalId])

getSignalVersionCall(t, signalId) ==
    CallStore(t, [Fresh EXCEPT !.op = "getSignalVersion", !.signalId = signalId])

batchUpdateCall(t, updates, cap) ==
    /\ CanWrite(Len(updates), cap)
    /\ CallStore(t, [Fresh EXCEPT !.op = "batchUpdate", !.updates = updates])

getSignalCountCall(t) ==
    CallStore(t, [Fresh EXCEPT !.op = "getSignalCount"])

clearCall(t) ==
    CallStore(t, [Fresh EXCEPT !.op = "clear"])

\* Signal::subscribe on a live Signal the caller holds
subscribeCall(t, r, callback, cap) ==
    /\ r \in DOMAIN heap
    /\ heap[r].nextSubscriberId_ + SubscribesInFlight(r) < cap
    /\ CallSignal(t, [Fresh EXCEPT !.op = "subscribe", !.fn = "subscribe",
                                   !.signal = r, !.callback = callback])

\* Signal::unsubscribe on a live Signal the caller holds
unsubscribeCall(t, r, id) ==
    /\ r \in DOMAIN heap
    /\ CallSignal(t, [Fresh EXCEPT !.op = "unsubscribe", !.fn = "unsubscribe",
                                   !.signal = r, !.subId = id])

\* thread t enters a method of Signal l.signal with locals l and is about to
\* take mutex_, which another thread may hold
EnterSignal(t, l) ==
    /\ pc[t] = "idle"
    /\ pc' = [pc EXCEPT ![t] = "lockEntry"]
    /\ loc' = [loc EXCEPT ![t] = l]
    /\ out' = NoOut
    /\ UNCHANGED <<signals_, nextSignalId_, storeMutex_, heap, issued>>

\* Signal::subscribe is entered
subscribeEnter(t, r, callback, cap) ==
    /\ r \in DOMAIN heap
    /\ heap[r].nextSubscriberId_ + SubscribesInFlight(r) < cap
    /\ EnterSignal(t, [Fresh EXCEPT !.op = "subscribe", !.fn = "subscribe",
                                    !.signal = r, !.callback = callback])

\* Signal::unsubscribe is entered
unsubscribeEnter(t, r, id) ==
    /\ r \in DOMAIN heap
    /\ EnterSignal(t, [Fresh EXCEPT !.op = "unsubscribe", !.fn = "unsubscribe",
                                    !.signal = r, !.subId = id])

\* thread t enters a Store method with locals l and is about to take
\* storeMutex_, which another thread may hold
EnterStore(t, l) ==
    /\ pc[t] = "idle"
    /\ pc' = [pc EXCEPT ![t] = "lockStore"]
    /\ loc' = [loc EXCEPT ![t] = l]
    /\ out' = NoOut
    /\ UNCHANGED <<signals_, nextSignalId_, storeMutex_, heap, issued>>

\* std::lock_guard<std::mutex> lock(storeMutex_)
LockStoreMutex(t) ==
    /\ pc[t] = "lockStore"
    /\ storeMutex_ = NoThread
    /\ storeMutex_' = t
    /\ pc' = [pc EXCEPT ![t] = "inStore"]
    /\ out' = NoOut
    /\ UNCHANGED <<signals_, nextSignalId_, heap, loc, issued>>

\* JSISignalStore::getSignal is entered
getSignalEnter(t, signalId) ==
    EnterStore(t, [Fresh EXCEPT !.op = "getSignal", !.signalId = signalId])

\* JSISignalStore::setSignal is entered
setSignalEnter(t, signalId, value, cap) ==
    /\ CanWrite(1, cap)
    /\ EnterStore(t, [Fresh EXCEPT !.op = "setSignal", !.signalId = signalId,
                                   !.value = value])

\* the change-detection pattern: a caller whose getSignalVersion returned
\* calls getSignal on the same id next, remembering the version it saw
getSignalAfterVersion(t) ==
    /\ pc[t] = "polled"
    /\ storeMutex_ = NoThread
    /\ storeMutex_' = t
    /\ pc' = [pc EXCEPT ![t] = "inStore"]
    /\ loc' = [loc EXCEPT ![t].op = "getSignal"]
    /\ out' = NoOut
    /\ UNCHANGED <<signals_, nextSignalId_, heap, issued>>

(* ------------------------------ returning ------------------------------ *)
\* the call of thread t returns (or throws) ret: its locals, the shared_ptrs
\* among them, go away, and out records the call and its result
Finish(t, ret) ==
    /\ pc' = [pc EXCEPT ![t] = "idle"]
    /\ loc' = [loc EXCEPT ![t] = Fresh]
    /\ out' = [thread |-> t, call |-> [loc[t] EXCEPT !.ret = ret]]

(* ------------------------------ the locks ------------------------------ *)
\* std::lock_guard<std::mutex> lock(mutex_), by a call that came through the Store
LockEntryMutex(t) ==
    /\ pc[t] = "lockEntry"
    /\ heap[loc[t].signal].mutex_ = NoThread
    /\ heap' = [heap EXCEPT ![loc[t].signal].mutex_ = t]
    /\ pc' = [pc EXCEPT ![t] = AfterLockEntry(loc[t].fn)]
    /\ out' = NoOut
    /\ UNCHANGED <<signals_, nextSignalId_, storeMutex_, loc, issued>>

(* --------------------- Store methods, under storeMutex_ ---------------- *)
InStore(t, op) == pc[t] = "inStore" /\ loc[t].op = op

\* createSignal, with now the reading of system_clock generateSignalId gets
createSignalBody(t, now) ==
    /\ InStore(t, "createSignal")
    /\ LET id == generateSignalId(nextSignalId_, now)
           r == Allocate(heap)
       IN  /\ nextSignalId_' = FetchAddSignalId(nextSignalId_)
           /\ signals_' = Put(signals_, id, r)
           /\ Finish(t, RetId(id))
           /\ heap' = Reap(Put(heap, r, NewSignal(loc[t].value)), signals_', loc')
           /\ issued' = Append(issued, id)
    /\ storeMutex_' = NoThread

\* the lookup getSignal, setSignal and getSignalVersion share: throw when the
\* id is absent, else retain the Signal and go on outside the lock
Lookup(t, op, fn, next) ==
    /\ InStore(t, op)
    /\ LET r == Find(signals_, loc[t].signalId)
       IN  IF r = NoRef
           THEN Finish(t, NotFound(loc[t].signalId))
           ELSE /\ loc' = [loc EXCEPT ![t].signal = r, ![t].fn = fn]
                /\ pc' = [pc EXCEPT ![t] = next]
                /\ out' = NoOut
    /\ signals_' = AfterFind(signals_, loc[t].signalId)
    /\ storeMutex_' = NoThread
    /\ UNCHANGED <<nextSignalId_, heap, issued>>

getSignalLookup(t) == Lookup(t, "getSignal", "getValue", "lockEntry")

setSignalLookup(t) == Lookup(t, "setSignal", "setValue", "lockEntry")

getSignalVersionLookup(t) == Lookup(t, "getSignalVersion", "getVersion", "getVersion")

hasSignalBody(t) ==
    /\ InStore(t, "hasSignal")
    /\ Finish(t, RetBool(Find(signals_, loc[t].signalId) # NoRef))
    /\ signals_' = AfterFind(signals_, loc[t].signalId)
    /\ storeMutex_' = NoThread
    /\ UNCHANGED <<nextSignalId_, heap, issued>>

deleteSignalBody(t) ==
    /\ InStore(t, "deleteSignal")
    /\ signals_' = Erase(signals_, loc[t].signalId)
    /\ Finish(t, RetVoid)
    /\ heap' = Reap(heap, signals_', loc')
    /\ storeMutex_' = NoThread
    /\ UNCHANGED <<nextSignalId_, issued>>

getSignalCountBody(t) ==
    /\ InStore(t, "getSignalCount")
    /\ Finish(t, RetNum(Size(signals_)))
    /\ storeMutex_' = NoThread
    /\ UNCHANGED <<signals_, nextSignalId_, heap, issued>>

clearBody(t) ==
    /\ InStore(t, "clear")
    /\ signals_' = Clear(signals_)
    /\ Finish(t, RetVoid)
    /\ heap' = Reap(heap, signals_', loc')
    /\ storeMutex_' = NoThread
    /\ UNCHANGED <<nextSignalId_, issued>>

\* phase 1 of batchUpdate: one pass over the updates under the lock
batchUpdateLookup(t) ==
    /\ InStore(t, "batchUpdate")
    /\ loc' = [loc EXCEPT ![t].signalsToUpdate = FoundSignals(signals_, loc[t].updates),
                          ![t].valuesToSet = FoundValues(signals_, loc[t].updates),
                          ![t].i = 0,
                          ![t].base = [r \in Range(FoundSignals(signals_, loc[t].updates))
                                          |-> [version_ |-> heap[r].version_,
                                               value_ |-> heap[r].value_]]]
    /\ storeMutex_' = NoThread
    /\ pc' = [pc EXCEPT ![t] = "batchLoop"]
    /\ out' = NoOut
    /\ UNCHANGED <<signals_, nextSignalId_, heap, issued>>

\* a loop that writes signalsToUpdate[0] every time round
NextPairFirst(i) == 1

\* the index of the recorded pair the loop of batchUpdate writes next
NextPair(i) == i + 1

\* phase 2 of batchUpdate: for (i = 0; i < signalsToUpdate.size(); ++i)
\* signalsToUpdate[i]->setValue(valuesToSet[i])
batchUpdateLoop(t) ==
    /\ pc[t] = "batchLoop"
    /\ IF loc[t].i < Len(loc[t].signalsToUpdate)
       THEN /\ loc' = [loc EXCEPT ![t].signal = loc[t].signalsToUpdate[NextPair(loc[t].i)],
                                  ![t].value = loc[t].valuesToSet[NextPair(loc[t].i)],
                                  ![t].fn = "setValue"]
            /\ pc' = [pc EXCEPT ![t] = "lockEntry"]
            /\ out' = NoOut
            /\ heap' = heap
       ELSE /\ Finish(t, RetVoid)
            /\ heap' = Reap(heap, signals_, loc')
    /\ UNCHANGED <<signals_, nextSignalId_, storeMutex_, issued>>

(* ----------------------- Signal methods, under mutex_ ------------------ *)
Self(t) == heap[loc[t].signal]

\* a lock on mutex_ that is not scoped and stays held
UnlockNever(h, t) == h

\* the lock_guard of thread t on its Signal's mutex_ releases
Unlock(h, t) == [h EXCEPT ![loc[t].signal].mutex_ = NoThread]

\* Signal::getValue: return value_, the lock_guard releases
getValue(t) ==
    /\ pc[t] = "getValue"
    /\ Finish(t, RetValue(Self(t).value_))
    /\ heap' = Reap(Unlock(heap, t), signals_, loc')
    /\ UNCHANGED <<signals_, nextSignalId_, storeMutex_, issued>>

\* Signal::setValue: value_ = newValue
setValueStore(t) ==
    /\ pc[t] = "setValue_store"
    /\ heap' = [heap EXCEPT ![loc[t].signal] = StoreValue(@, loc[t].value)]
    /\ loc' = [loc EXCEPT ![t].atWrite = Subscribed(Self(t)),
                          ![t].versionBefore = Self(t).version_,
                          ![t].delivered = <<>>]
    /\ pc' = [pc EXCEPT ![t] = "setValue_bump"]
    /\ out' = NoOut
    /\ UNCHANGED <<signals_, nextSignalId_, storeMutex_, issued>>

\* a setValue whose lock_guard lives to the end of the function
HeldToTheEnd(h, t) == h

\* the closing brace of the locked block of setValue, before the callbacks
EndOfLockedBlock(h, t) == Unlock(h, t)

\* Signal::setValue: version_.fetch_add(1) (written records whose write it
\* was); subscribersCopy = subscribers_; currentValue = value_; the scope ends
\* and the lock_guard releases
setValueBump(t) ==
    /\ pc[t] = "setValue_bump"
    /\ loc' = [loc EXCEPT ![t].subscribersCopy = Self(t).subscribers_,
                          ![t].currentValue = Self(t).value_,
                          ![t].todo = DOMAIN Self(t).subscribers_,
                          ![t].applied = Append(@, loc[t].signal),
                          ![t].writeNo = FetchAddVersion(Self(t)).version_]
    /\ heap' = [EndOfLockedBlock(heap, t) EXCEPT ![loc[t].signal] =
                   [FetchAddVersion(@) EXCEPT
                       !.written = [val |-> loc[t].value, n |-> @.n + 1, by |-> t]]]
    /\ pc' = [pc EXCEPT ![t] = "notify"]
    /\ out' = NoOut
    /\ UNCHANGED <<signals_, nextSignalId_, storeMutex_, issued>>

\* Signal::setValue: for (const auto& [id, callback] : subscribersCopy), in
\* whatever order the unordered_map iterates; after the loop setValue returns
\* to setSignal, which returns, or to the loop of batchUpdate
setValueNotify(t) ==
    /\ pc[t] = "notify"
    /\ IF loc[t].todo # {}
       THEN /\ \E id \in loc[t].todo :
                 loc' = [loc EXCEPT ![t].cb = id, ![t].todo = @ \ {id}]
            /\ pc' = [pc EXCEPT ![t] = "callback"]
            /\ out' = NoOut
            /\ heap' = heap
       ELSE IF loc[t].op = "batchUpdate"
            THEN /\ loc' = [loc EXCEPT ![t].i = @ + 1,
                                       ![t].subscribersCopy = EmptyMap,
                                       ![t].currentValue = SignalValueUndefined,
                                       ![t].atWrite = {},
                                       ![t].versionBefore = 0,
                                       ![t].writeNo = 0,
                                       ![t].delivered = <<>>]
                 /\ pc' = [pc EXCEPT ![t] = "batchLoop"]
                 /\ out' = NoOut
                 /\ heap' = [heap EXCEPT ![loc[t].signal].returned = @ + 1]
            ELSE /\ Finish(t, RetVoid)
                 /\ heap' = Reap([heap EXCEPT ![loc[t].signal].returned = @ + 1],
                                 signals_, loc')
    /\ UNCHANGED <<signals_, nextSignalId_, storeMutex_, issued>>

\* history: the write of thread t has just called callback loc[t].cb
Notified(h, t) ==
    [h EXCEPT ![loc[t].signal].notified =
        Put(@, loc[t].cb, [n |-> loc[t].writeNo, val |-> loc[t].currentValue])]

\* what a call of the callback ends with
Invoke(callback) == IF callback = "throws" THEN "throws" ELSE "returns"

\* a loop with no try block round the call: the exception goes on
CatchNothing(outcome) == outcome

\* try { ... } catch (...) { }: whatever the callback ended with, the loop goes on
Catch(outcome) == "returns"

\* Signal::setValue: try { callback(currentValue); } catch (...) { }, for a
\* callback that does not call back into the Signal or the Store; h is the
\* heap with or without the history of the call
setValueCallbackIn(t, h) ==
    /\ pc[t] = "callback"
    /\ loc[t].subscribersCopy[loc[t].cb] \in Callbacks
    /\ LET l == [loc[t] EXCEPT
                   !.delivered = Append(@, <<loc[t].cb, loc[t].currentValue>>)]
       IN  IF Catch(Invoke(loc[t].subscribersCopy[loc[t].cb])) = "returns"
           THEN /\ loc' = [loc EXCEPT ![t] = l]
                /\ pc' = [pc EXCEPT ![t] = "notify"]
                /\ out' = NoOut
                /\ heap' = h
           ELSE /\ pc' = [pc EXCEPT ![t] = "idle"]
                /\ loc' = [loc EXCEPT ![t] = Fresh]
                /\ out' = [thread |-> t, call |-> [l EXCEPT !.ret = CallbackError]]
                /\ heap' = Reap(h, signals_, loc')
    /\ UNCHANGED <<signals_, nextSignalId_, storeMutex_, issued>>

setValueCallback(t) == setValueCallbackIn(t, heap)

\* the same step, with what the callback has received kept as history
setValueCallbackNoted(t) == setValueCallbackIn(t, Notified(heap, t))

\* Signal::setValue: callback(currentValue) for a callback that calls back:
\* it is entered and is about to take the lock its call needs; a callback
\* that subscribes does so while the Signal has had fewer than cap
\* subscriptions, and returns at once after that
setValueCallbackEnter(t, cap) ==
    /\ pc[t] = "callback"
    /\ loc[t].subscribersCopy[loc[t].cb] \in ReentrantCallbacks
    /\ loc' = [loc EXCEPT ![t].delivered = Append(@, <<loc[t].cb, loc[t].currentValue>>)]
    /\ pc' = [pc EXCEPT ![t] =
                 CASE loc[t].subscribersCopy[loc[t].cb] = "getSignal" -> "cb_lockStore"
                   [] /\ loc[t].subscribersCopy[loc[t].cb] = "subscribe"
                      /\ Self(t).nextSubscriberId_ + SubscribesInFlight(loc[t].signal) >= cap
                      -> "notify"
                   [] OTHER -> "cb_lockEntry"]
    /\ out' = NoOut
    /\ UNCHANGED <<signals_, nextSignalId_, storeMutex_, heap, issued>>

\* inside the callback, JSISignalStore::getSignal: lock_guard lock(storeMutex_)
callbackLockStore(t) ==
    /\ pc[t] = "cb_lockStore"
    /\ storeMutex_ = NoThread
    /\ storeMutex_' = t
    /\ pc' = [pc EXCEPT ![t] = "cb_inStore"]
    /\ out' = NoOut
    /\ UNCHANGED <<signals_, nextSignalId_, heap, loc, issued>>

\* inside the callback, JSISignalStore::getSignal: the lookup; NotFound is
\* thrown into the catch of setValue, which goes on with the next callback
callbackInStore(t) ==
    /\ pc[t] = "cb_inStore"
    /\ storeMutex_' = NoThread
    /\ pc' = [pc EXCEPT ![t] = IF Find(signals_, loc[t].signalId) = NoRef
                               THEN "notify" ELSE "cb_lockEntry"]
    /\ out' = NoOut
    /\ UNCHANGED <<signals_, nextSignalId_, heap, loc, issued>>

\* inside the callback, a Signal method: lock_guard lock(mutex_)
callbackLockEntry(t) ==
    /\ pc[t] = "cb_lockEntry"
    /\ heap[loc[t].signal].mutex_ = NoThread
    /\ heap' = [heap EXCEPT ![loc[t].signal].mutex_ = t]
    /\ pc' = [pc EXCEPT ![t] = "cb_inSignal"]
    /\ out' = NoOut
    /\ UNCHANGED <<signals_, nextSignalId_, storeMutex_, loc, issued>>

\* inside the callback, the Signal method under mutex_: getValue (also as the
\* end of getSignal), subscribe of a returning callback, or unsubscribe of
\* the callback itself; the lock_guard releases and the callback returns
callbackInSignal(t) ==
    /\ pc[t] = "cb_inSignal"
    /\ LET kind == loc[t].subscribersCopy[loc[t].cb]
           s == Self(t)
           after ==
               CASE kind = "subscribe" ->
                        [SubscribeTo(s, "returns") EXCEPT
                            !.handed = Append(@, NextSubscriberId(s))]
                 [] kind = "unsubscribe" ->
                        [UnsubscribeFrom(s, loc[t].cb) EXCEPT
                            !.unsubscribed =
                                IF loc[t].cb \in Range(s.handed) \ DOMAIN @
                                THEN Put(@, loc[t].cb, s.version_)
                                ELSE @]
                 [] OTHER -> s
       IN  heap' = Unlock([heap EXCEPT ![loc[t].signal] = after], t)
    /\ pc' = [pc EXCEPT ![t] = "notify"]
    /\ out' = NoOut
    /\ UNCHANGED <<signals_, nextSignalId_, storeMutex_, loc, issued>>

\* Signal::subscribe
subscribe(t) ==
    /\ pc[t] = "subscribe"
    /\ Finish(t, RetNum(NextSubscriberId(Self(t))))
    /\ heap' = Reap([Unlock(heap, t) EXCEPT ![loc[t].signal] =
                        [SubscribeTo(@, loc[t].callback) EXCEPT
                            !.handed = Append(@, NextSubscriberId(Self(t)))]],
                    signals_, loc')
    /\ UNCHANGED <<signals_, nextSignalId_, storeMutex_, issued>>

\* Signal::unsubscribe
unsubscribe(t) ==
    /\ pc[t] = "unsubscribe"
    /\ Finish(t, RetVoid)
    /\ heap' = Reap([Unlock(heap, t) EXCEPT ![loc[t].signal] =
                        [UnsubscribeFrom(@, loc[t].subId) EXCEPT
                            !.unsubscribed =
                                IF loc[t].subId \in Range(Self(t).handed) \ DOMAIN @
                                THEN Put(@, loc[t].subId, Self(t).version_)
                                ELSE @]],
                    signals_, loc')
    /\ UNCHANGED <<signals_, nextSignalId_, storeMutex_, issued>>

\* getSignalVersion: return signal->getVersion(), no lock taken
getSignalVersionLoad(t) ==
    /\ pc[t] = "getVersion"
    /\ Finish(t, RetNum(getVersion(Self(t))))
    /\ heap' = Reap(heap, signals_, loc')
    /\ UNCHANGED <<signals_, nextSignalId_, storeMutex_, issued>>

\* getSignalVersion returns to a caller that reads the value next
getSignalVersionLoadPolling(t) ==
    /\ pc[t] = "getVersion"
    /\ pc' = [pc EXCEPT ![t] = "polled"]
    /\ loc' = [loc EXCEPT ![t] = [Fresh EXCEPT !.op = "getSignalVersion",
                                               !.signalId = loc[t].signalId,
                                               !.polled = TRUE,
                                               !.seen = getVersion(Self(t))]]
    /\ out' = [thread |-> t, call |-> [loc[t] EXCEPT !.ret = RetNum(getVersion(Self(t)))]]
    /\ heap' = Reap(heap, signals_, loc')
    /\ UNCHANGED <<signals_, nextSignalId_, storeMutex_, issued>>

(* --------------------------- the specifications ------------------------ *)
\* the thread that batch-writes
BatchCallers == {"t1"}
\* the thread that works on the map in SpecLocks
StructureCallers == {"t2"}
\* the thread that subscribes and unsubscribes in SpecNotify and SpecLive
SubscribeCallers == {"t2"}

\* callers that create, write, read and poll the version
NextWrite ==
    \E t \in Threads :
        \/ \E v \in Values : createSignalCall(t, v, WriteSignals)
        \/ \E id \in IdArgs : getSignalCall(t, id)
        \/ \E id \in IdArgs, v \in Values : setSignalCall(t, id, v, WriteVersions)
        \/ \E id \in IdArgs : getSignalVersionCall(t, id)
        \/ LockEntryMutex(t)
        \/ createSignalBody(t, Now)
        \/ getSignalLookup(t)
        \/ setSignalLookup(t)
        \/ getSignalVersionLookup(t)
        \/ getValue(t)
        \/ setValueStore(t)
        \/ setValueBump(t)
        \/ setValueNotify(t)
        \/ getSignalVersionLoad(t)
        \/ getSignalVersionLoadPolling(t)
        \/ getSignalAfterVersion(t)

SpecWrite == Init /\ [][NextWrite]_vars

\* a batch writer among callers that create and read
NextBatch ==
    \E t \in Threads :
        \/ createSignalCall(t, SignalValueUndefined, BatchSignals)
        \/ \E id \in IdArgs : getSignalCall(t, id)
        \/ /\ t \in BatchCallers
           /\ pc[t] = "idle"
           /\ \E u \in Batches(Room(BatchVersions)) : batchUpdateCall(t, u, BatchVersions)
        \/ LockEntryMutex(t)
        \/ createSignalBody(t, Now)
        \/ getSignalLookup(t)
        \/ batchUpdateLookup(t)
        \/ batchUpdateLoop(t)
        \/ getValue(t)
        \/ setValueStore(t)
        \/ setValueBump(t)
        \/ setValueNotify(t)

SpecBatch == Init /\ [][NextBatch]_vars

\* callers that create, write, batch-write and read the version
NextCount ==
    \E t \in Threads :
        \/ createSignalCall(t, SignalValueUndefined, CountSignals)
        \/ \E id \in IdArgs, v \in Values : setSignalCall(t, id, v, CountVersions)
        \/ \E id \in IdArgs : getSignalVersionCall(t, id)
        \/ /\ t \in BatchCallers
           /\ pc[t] = "idle"
           /\ \E u \in Batches(Room(CountVersions)) : batchUpdateCall(t, u, CountVersions)
        \/ LockEntryMutex(t)
        \/ createSignalBody(t, Now)
        \/ setSignalLookup(t)
        \/ getSignalVersionLookup(t)
        \/ batchUpdateLookup(t)
        \/ batchUpdateLoop(t)
        \/ setValueStore(t)
        \/ setValueBump(t)
        \/ setValueNotify(t)
        \/ getSignalVersionLoad(t)

SpecCount == Init /\ [][NextCount]_vars

\* callers that create, look up, read, write and delete
NextLife ==
    \E t \in Threads :
        \/ \E v \in Values : createSignalCall(t, v, LifeSignals)
        \/ \E id \in IdArgs : getSignalCall(t, id)
        \/ \E id \in IdArgs : setSignalCall(t, id, SignalValueUndefined, LifeVersions)
        \/ \E id \in IdArgs : hasSignalCall(t, id)
        \/ \E id \in IdArgs : deleteSignalCall(t, id)
        \/ \E id \in IdArgs : getSignalVersionCall(t, id)
        \/ LockEntryMutex(t)
        \/ createSignalBody(t, Now)
        \/ getSignalLookup(t)
        \/ setSignalLookup(t)
        \/ hasSignalBody(t)
        \/ deleteSignalBody(t)
        \/ getSignalVersionLookup(t)
        \/ getValue(t)
        \/ setValueStore(t)
        \/ setValueBump(t)
        \/ setValueNotify(t)
        \/ getSignalVersionLoad(t)

SpecLife == Init /\ [][NextLife]_vars

\* callers that create, look up, read and delete while writes are in flight
NextDelete ==
    \E t \in Threads :
        \/ createSignalCall(t, SignalValueUndefined, DeleteSignals)
        \/ \E id \in IdArgs : getSignalCall(t, id)
        \/ \E id \in IdArgs :
               setSignalCall(t, id, SignalValueString("hello"), DeleteVersions)
        \/ \E id \in IdArgs : hasSignalCall(t, id)
        \/ \E id \in IdArgs : deleteSignalCall(t, id)
        \/ /\ t \in BatchCallers
           /\ \E id \in IdArgs :
                  batchUpdateCall(t, <<<<id, SignalValueNumber(42)>>>>, DeleteVersions)
        \/ LockEntryMutex(t)
        \/ createSignalBody(t, Now)
        \/ getSignalLookup(t)
        \/ setSignalLookup(t)
        \/ hasSignalBody(t)
        \/ deleteSignalBody(t)
        \/ batchUpdateLookup(t)
        \/ batchUpdateLoop(t)
        \/ getValue(t)
        \/ setValueStore(t)
        \/ setValueBump(t)
        \/ setValueNotify(t)

SpecDelete == Init /\ [][NextDelete]_vars

\* callers that create, count, delete and clear, at any reading of the clock
NextIds ==
    \E t \in Threads :
        \/ createSignalCall(t, SignalValueUndefined, IdSignals)
        \/ \E id \in IdArgs : deleteSignalCall(t, id)
        \/ getSignalCountCall(t)
        \/ clearCall(t)
        \/ \E now \in Timestamps : createSignalBody(t, now)
        \/ deleteSignalBody(t)
        \/ getSignalCountBody(t)
        \/ clearBody(t)

SpecIds == Init /\ [][NextIds]_vars

\* every operation of the Store and of Signal: one thread works on the map
\* and reads, the other writes, batch-writes one pair, subscribes and unsubscribes
NextLocks ==
    \E t \in Threads :
        \/ /\ t \in StructureCallers
           /\ \/ createSignalCall(t, SignalValueUndefined, LockSignals)
              \/ \E id \in IdArgs : getSignalCall(t, id)
              \/ \E id \in IdArgs : hasSignalCall(t, id)
              \/ \E id \in IdArgs : deleteSignalCall(t, id)
              \/ \E id \in IdArgs : getSignalVersionCall(t, id)
              \/ getSignalCountCall(t)
              \/ clearCall(t)
        \/ /\ t \in BatchCallers
           /\ \/ \E id \in IdArgs : setSignalCall(t, id, SignalValueUndefined, LockVersions)
              \/ \E id \in IdArgs :
                     batchUpdateCall(t, <<<<id, SignalValueUndefined>>>>, LockVersions)
              \/ \E r \in DOMAIN heap : subscribeCall(t, r, "returns", LockSubscribers)
              \/ \E r \in DOMAIN heap : \E id \in DOMAIN heap[r].subscribers_ :
                     unsubscribeCall(t, r, id)
        \/ LockEntryMutex(t)
        \/ createSignalBody(t, Now)
        \/ getSignalLookup(t)
        \/ setSignalLookup(t)
        \/ hasSignalBody(t)
        \/ deleteSignalBody(t)
        \/ getSignalVersionLookup(t)
        \/ batchUpdateLookup(t)
        \/ batchUpdateLoop(t)
        \/ getSignalCountBody(t)
        \/ clearBody(t)
        \/ getValue(t)
        \/ setValueStore(t)
        \/ setValueBump(t)
        \/ setValueNotify(t)
        \/ setValueCallback(t)
        \/ subscribe(t)
        \/ unsubscribe(t)
        \/ getSignalVersionLoad(t)

SpecLocks == Init /\ [][NextLocks]_vars

\* writers of one Signal next to a thread that subscribes callbacks, returning
\* and throwing ones, and unsubscribes them
NextNotify ==
    \E t \in Threads :
        \/ \E id \in IdArgs, v \in Values : setSignalCall(t, id, v, NotifyVersions)
        \/ /\ t \in SubscribeCallers
           /\ \E r \in DOMAIN heap, cb \in Callbacks :
                  subscribeCall(t, r, cb, NotifySubscribers)
        \/ /\ t \in SubscribeCallers
           /\ \E r \in DOMAIN heap : \E id \in DOMAIN heap[r].subscribers_ :
                  unsubscribeCall(t, r, id)
        \/ LockEntryMutex(t)
        \/ setSignalLookup(t)
        \/ setValueStore(t)
        \/ setValueBump(t)
        \/ setValueNotify(t)
        \/ setValueCallback(t)
        \/ subscribe(t)
        \/ unsubscribe(t)

SpecNotify == InitOneSignal /\ [][NextNotify]_vars

\* callers that create, look up, read, write, count and clear
NextClear ==
    \E t \in Threads :
        \/ createSignalCall(t, SignalValueUndefined, ClearSignals)
        \/ \E id \in IdArgs : getSignalCall(t, id)
        \/ \E id \in IdArgs :
               setSignalCall(t, id, SignalValueNumber(42), ClearVersions)
        \/ \E id \in IdArgs : hasSignalCall(t, id)
        \/ \E id \in IdArgs : getSignalVersionCall(t, id)
        \/ getSignalCountCall(t)
        \/ clearCall(t)
        \/ LockEntryMutex(t)
        \/ createSignalBody(t, Now)
        \/ getSignalLookup(t)
        \/ setSignalLookup(t)
        \/ hasSignalBody(t)
        \/ getSignalVersionLookup(t)
        \/ getSignalCountBody(t)
        \/ clearBody(t)
        \/ getValue(t)
        \/ setValueStore(t)
        \/ setValueBump(t)
        \/ setValueNotify(t)
        \/ getSignalVersionLoad(t)

SpecClear == Init /\ [][NextClear]_vars

\* callers that read, write, batch-write one pair and subscribe to the one
\* Signal of the Store while callers delete it or clear the map
NextInFlight ==
    \E t \in Threads :
        \/ \E id \in IdArgs : getSignalCall(t, id)
        \/ \E id \in IdArgs :
               setSignalCall(t, id, SignalValueNumber(42), InFlightVersions)
        \/ \E id \in IdArgs : getSignalVersionCall(t, id)
        \/ \E id \in IdArgs :
               batchUpdateCall(t, <<<<id, SignalValueString("hello")>>>>, InFlightVersions)
        \/ \E id \in IdArgs : deleteSignalCall(t, id)
        \/ clearCall(t)
        \/ \E r \in DOMAIN heap : subscribeCall(t, r, "returns", InFlightSubscribers)
        \/ LockEntryMutex(t)
        \/ getSignalLookup(t)
        \/ setSignalLookup(t)
        \/ getSignalVersionLookup(t)
        \/ batchUpdateLookup(t)
        \/ batchUpdateLoop(t)
        \/ deleteSignalBody(t)
        \/ clearBody(t)
        \/ getValue(t)
        \/ setValueStore(t)
        \/ setValueBump(t)
        \/ setValueNotify(t)
        \/ setValueCallback(t)
        \/ subscribe(t)
        \/ getSignalVersionLoad(t)

SpecInFlight == InitOneSignal /\ [][NextInFlight]_vars

\* two writers of one Signal, one of which also subscribes callbacks to it
NextOrder ==
    \E t \in Threads :
        \/ \E id \in Range(issued), v \in Values :
               setSignalCall(t, id, v, OrderVersions)
        \/ /\ t \in SubscribeCallers
           /\ \E r \in DOMAIN heap : subscribeCall(t, r, "returns", OrderSubscribers)
        \/ LockEntryMutex(t)
        \/ setSignalLookup(t)
        \/ setValueStore(t)
        \/ setValueBump(t)
        \/ setValueNotify(t)
        \/ setValueCallbackNoted(t)
        \/ subscribe(t)

SpecOrder == InitOneSignal /\ [][NextOrder]_vars

\* a writer of any Signal next to a thread that creates a second Signal,
\* subscribes callbacks to the Signals and deletes Signals
NextFrame ==
    \E t \in Threads :
        \/ /\ t \in BatchCallers
           /\ \E id \in IdArgs :
                  setSignalCall(t, id, SignalValueNumber(42), FrameVersions)
        \/ /\ t \in StructureCallers
           /\ createSignalCall(t, SignalValueString("hello"), FrameSignals)
        \/ /\ t \in StructureCallers
           /\ \E id \in Range(issued) : deleteSignalCall(t, id)
        \/ /\ t \in StructureCallers
           /\ \E r \in Range(signals_) : subscribeCall(t, r, "returns", FrameSubscribers)
        \/ LockEntryMutex(t)
        \/ createSignalBody(t, Now)
        \/ deleteSignalBody(t)
        \/ setSignalLookup(t)
        \/ setValueStore(t)
        \/ setValueBump(t)
        \/ setValueNotify(t)
        \/ setValueCallbackNoted(t)
        \/ subscribe(t)

SpecFrame == InitOneSignal /\ [][NextFrame]_vars

\* what thread t does inside a call once it has the lock it needs
Progress(t) ==
    \/ getSignalLookup(t)
    \/ setSignalLookup(t)
    \/ getValue(t)
    \/ setValueStore(t)
    \/ setValueBump(t)
    \/ setValueNotify(t)
    \/ setValueCallback(t)
    \/ setValueCallbackEnter(t, LiveSubscribers + 1)
    \/ callbackInStore(t)
    \/ callbackInSignal(t)
    \/ subscribe(t)
    \/ unsubscribe(t)

\* thread t takes a mutex it is waiting for
Acquire(t) ==
    \/ LockStoreMutex(t)
    \/ LockEntryMutex(t)
    \/ callbackLockStore(t)
    \/ callbackLockEntry(t)

\* a thread that reads and writes the one Signal of the Store next to a
\* thread that reads it, subscribes callbacks that throw or call back into
\* the Signal or the Store, and unsubscribes
NextLive ==
    \E t \in Threads :
        \/ \E id \in IdArgs : getSignalEnter(t, id)
        \/ /\ t \in BatchCallers
           /\ \E id \in Range(issued) :
                  setSignalEnter(t, id, SignalValueNumber(42), LiveVersions)
        \/ /\ t \in SubscribeCallers
           /\ \E r \in DOMAIN heap, cb \in ReentrantCallbacks \cup {"throws"} :
                  subscribeEnter(t, r, cb, LiveSubscribers)
        \/ /\ t \in SubscribeCallers
           /\ \E r \in DOMAIN heap : \E id \in DOMAIN heap[r].subscribers_ :
                  unsubscribeEnter(t, r, id)
        \/ Acquire(t)
        \/ Progress(t)

\* fair scheduling: a thread inside a call goes on, and a thread waiting
\* for a mutex that is free again and again gets it
SpecLive ==
    /\ InitOneSignal
    /\ [][NextLive]_vars
    /\ \A t \in Threads : WF_vars(Progress(t)) /\ SF_vars(Acquire(t))

\* threads that subscribe to one Signal and unsubscribe, ids never handed out
\* or already removed included, next to a writer
NextSubscribe ==
    \E t \in Threads :
        \/ \E r \in DOMAIN heap : subscribeEnter(t, r, "returns", SubscribeSubscribers)
        \/ \E r \in DOMAIN heap, id \in 0..SubscribeSubscribers : unsubscribeEnter(t, r, id)
        \/ /\ t \in BatchCallers
           /\ \E id \in Range(issued) :
                  setSignalCall(t, id, SignalValueString("hello"), SubscribeVersions)
        \/ LockEntryMutex(t)
        \/ setSignalLookup(t)
        \/ setValueStore(t)
        \/ setValueBump(t)
        \/ setValueNotify(t)
        \/ setValueCallback(t)
        \/ subscribe(t)
        \/ unsubscribe(t)

SpecSubscribe == InitOneSignal /\ [][NextSubscribe]_vars

(* ------------------------------- claims -------------------------------- *)
\* C2: whenever a Signal's entry lock is free, its value and its version
\* belong to one write: at version 0 the value is the constructor's, at
\* version k > 0 it is the value handed to the write that made the version k
C2_PairFromOneWrite ==
    \A r \in DOMAIN heap :
        heap[r].mutex_ = NoThread =>
            /\ heap[r].value_ = heap[r].written.val
            /\ heap[r].version_ = heap[r].written.n

\* a setSignal has just returned on a Signal two writes have replaced the
\* initial value of
C2_Witness ==
    /\ out.call.op = "setSignal"
    /\ out.call.ret.kind = "void"
    /\ \E r \in DOMAIN heap :
         /\ heap[r].mutex_ = NoThread
         /\ heap[r].version_ = 2
         /\ heap[r].value_ = out.call.value

\* C3: a reader that saw version V through getSignalVersion and then reads
\* the value gets the value of a write numbered V or later, never an older one
C3_NoStaleValueAfterVersion ==
    (out.call.op = "getSignal" /\ out.call.polled /\ out.call.ret.kind = "value") =>
        LET s == heap[out.call.signal]
        IN  /\ out.call.ret.val = s.written.val
            /\ s.written.n >= out.call.seen

\* a reader saw version 1 and then read a value, while the other thread
\* wrote again in between
C3_Witness ==
    /\ out.call.op = "getSignal"
    /\ out.call.polled
    /\ out.call.ret.kind = "value"
    /\ out.call.seen = 1
    /\ heap[out.call.signal].written.n = 2

\* the threads inside a setValue call on Signal r
Writers(r) ==
    {t \in Threads : /\ loc[t].fn = "setValue"
                     /\ loc[t].signal = r
                     /\ pc[t] \in {"lockEntry", "setValue_store", "setValue_bump",
                                   "notify", "callback"}}

\* C1: once every write issued to a Signal (by setSignal or as a found entry
\* of a batchUpdate, from any threads) has completed, its version equals the
\* number of those writes, and that is what getSignalVersion returns
C1_VersionCountsWrites ==
    /\ \A r \in DOMAIN heap :
         Writers(r) = {} => heap[r].version_ = heap[r].returned
    /\ (/\ out.call.op = "getSignalVersion"
        /\ out.call.ret.kind = "num"
        /\ Writers(out.call.signal) = {})
       => out.call.ret.num = heap[out.call.signal].returned

\* two overlapping writes of two threads have both completed: the write that
\* returned last is not the one that incremented the version last
C1_Witness ==
    /\ out.call.op \in {"setSignal", "batchUpdate"}
    /\ \E r \in DOMAIN heap :
         /\ Writers(r) = {}
         /\ heap[r].returned = 2
         /\ heap[r].version_ = 2
         /\ heap[r].written.by # out.thread

\* the positions of sequence q that hold x
Positions(q, x) == {k \in 1..Len(q) : q[k] = x}

\* C8: batchUpdate never fails; it writes every pair whose id it found, in
\* the order of the updates, through setValue: the version of a Signal goes
\* up by one for each pair naming it, and if nobody else wrote it the value
\* it ends with is that of the last pair naming it; a pair whose id is absent
\* is skipped and leaves no entry behind
C8_BatchWritesFoundPairsInOrder ==
    out.call.op = "batchUpdate" =>
        LET c == out.call
            u == c.updates
        IN  /\ c.ret.kind = "void"
            /\ c.applied = c.signalsToUpdate
            /\ Len(c.valuesToSet) = Len(c.signalsToUpdate)
            /\ \A k \in 1..Len(u) :
                 u[k][1] \notin Range(issued) => u[k][1] \notin DOMAIN signals_
            /\ \A id \in DOMAIN signals_ :
                 LET r == signals_[id]
                     K == {k \in 1..Len(u) : u[k][1] = id}
                 IN  K # {} =>
                       /\ r \in DOMAIN c.base
                       /\ heap[r].version_ >= c.base[r].version_ + Cardinality(K)
                       /\ (/\ heap[r].version_ = c.base[r].version_ + Cardinality(K)
                           /\ heap[r].mutex_ = NoThread)
                          => heap[r].value_ = u[Max(K)][2]

\* a batch of two pairs has returned: the first named an absent id and was
\* skipped, the second was written to its Signal with its own value
C8_Witness ==
    /\ out.call.op = "batchUpdate"
    /\ out.call.ret.kind = "void"
    /\ Len(out.call.updates) = 2
    /\ out.call.updates[1][1] = UnknownId
    /\ out.call.updates[1][2] # out.call.updates[2][2]
    /\ Len(out.call.signalsToUpdate) = 1
    /\ UnknownId \notin DOMAIN signals_
    /\ LET r == out.call.signalsToUpdate[1]
       IN  /\ heap[r].version_ = out.call.base[r].version_ + 1
           /\ heap[r].value_ = out.call.updates[2][2]

C10_LocksNeverNested ==
    \A t \in Threads :
        /\ ~(storeMutex_ = t /\ \E r \in DOMAIN heap : heap[r].mutex_ = t)
        /\ pc[t] \in {"getValue", "setValue_store", "setValue_bump"}
           => (storeMutex_ # t /\ heap[loc[t].signal].mutex_ = t)
        /\ pc[t] = "callback"
           => (storeMutex_ # t /\ \A r \in DOMAIN heap : heap[r].mutex_ # t)
        /\ pc[t] = "inStore" <=> storeMutex_ = t

\* one thread runs a subscriber callback of a Signal while the other thread
\* is inside the Store with storeMutex_
C10_Witness ==
    \E t \in Threads, u \in Threads :
        /\ t # u
        /\ pc[t] = "callback"
        /\ heap[loc[t].signal].version_ = 1
        /\ storeMutex_ = u
        /\ loc[u].op = "getSignal"

\* C4: createSignal never fails, and once it has returned id for the initial
\* value v the Signal is in the map under id (hasSignal), holds v (getSignal)
\* and has version 0 (getSignalVersion), with its lock free
C4_CreatedSignalIsThere ==
    out.call.op = "createSignal" =>
        LET r == Find(signals_, out.call.ret.id)
        IN  /\ out.call.ret.kind = "id"
            /\ r # NoRef
            /\ r \in DOMAIN heap
            /\ heap[r].value_ = out.call.value
            /\ getVersion(heap[r]) = 0
            /\ heap[r].mutex_ = NoThread

\* the second createSignal has just returned, for a string, after the first
\* Signal was deleted
C4_Witness ==
    /\ out.call.op = "createSignal"
    /\ out.call.value = SignalValueString("hello")
    /\ Len(issued) = 2
    /\ out.call.ret.id = issued[2]
    /\ issued[1] \notin DOMAIN signals_

\* C5: getSignal, setSignal and getSignalVersion on an id that is not in the
\* map throw NotFound, and that step changes neither the map nor any Signal
C5_AbsentIdThrowsAndChangesNothing ==
    [][\A t \in Threads :
          (/\ pc[t] = "inStore"
           /\ loc[t].op \in {"getSignal", "setSignal", "getSignalVersion"}
           /\ loc[t].signalId \notin DOMAIN signals_
           /\ pc'[t] # "inStore")
          => /\ pc'[t] = "idle"
             /\ out'.thread = t
             /\ out'.call.op = loc[t].op
             /\ out'.call.ret = NotFound(loc[t].signalId)
             /\ signals_' = signals_
             /\ heap' = heap]_vars

\* a setSignal on a deleted id has just thrown while another Signal is in the
\* map and the other thread holds its lock
C5_Witness ==
    /\ out.call.op = "setSignal"
    /\ out.call.ret.kind = "NotFound"
    /\ out.call.signalId \in Range(issued)
    /\ \E id \in DOMAIN signals_ : heap[signals_[id]].mutex_ \in Threads \ {out.thread}

\* C6: deleteSignal leaves its id out of the map, and an id handed out and no
\* longer in the map never comes back: every step keeps it out, hasSignal on
\* it returns false and getSignal on it throws NotFound
C6_DeletedIdStaysAbsent ==
    [][/\ \A t \in Threads :
            (InStore(t, "deleteSignal") /\ pc'[t] = "idle")
            => loc[t].signalId \notin DOMAIN signals_'
       /\ \A id \in Range(issued) \ DOMAIN signals_ :
            /\ id \notin DOMAIN signals_'
            /\ \A t \in Threads :
                 (pc[t] = "inStore" /\ loc[t].signalId = id /\ pc'[t] = "idle")
                 => /\ loc[t].op = "hasSignal" => out'.call.ret = RetBool(FALSE)
                    /\ loc[t].op = "getSignal" => out'.call.ret = NotFound(id)]_vars

\* hasSignal has just returned false for the first id handed out: it was
\* deleted, a second Signal was created since, and a write that found the
\* deleted Signal before is still in flight
C6_Witness ==
    /\ out.call.op = "hasSignal"
    /\ out.call.ret = RetBool(FALSE)
    /\ Len(issued) = 2
    /\ out.call.signalId = issued[1]
    /\ issued[2] \in DOMAIN signals_
    /\ \E u \in Threads :
         /\ loc[u].op \in {"setSignal", "batchUpdate"}
         /\ loc[u].fn = "setValue"
         /\ loc[u].signal \notin Range(signals_)

\* C7: the ids createSignal has returned are pairwise different, whatever
\* the clock read, and the counter is never reset: it counts the ids returned
C7_IdsAreUnique ==
    /\ \A i \in 1..Len(issued), j \in 1..Len(issued) :
         i # j => issued[i] # issued[j]
    /\ nextSignalId_ = Len(issued)

\* the third createSignal has just returned at the clock reading of the
\* first, after the map was emptied
C7_Witness ==
    /\ out.call.op = "createSignal"
    /\ Len(issued) = 3
    /\ issued[1] = generateSignalId(0, Now)
    /\ issued[3] = generateSignalId(2, Now)
    /\ DOMAIN signals_ = {issued[3]}

\* how many times the write with locals l has invoked callback id
Invocations(l, id) ==
    Cardinality({k \in 1..Len(l.delivered) : l.delivered[k][1] = id})

\* the write with locals l has invoked every callback that was subscribed
\* when it stored the value exactly once, and nothing else, and has passed
\* each the value it stored
DeliveredAll(l) ==
    /\ \A id \in l.atWrite : Invocations(l, id) = 1
    /\ \A k \in 1..Len(l.delivered) :
         /\ l.delivered[k][1] \in l.atWrite
         /\ l.delivered[k][2] = l.value

\* C12: a write invokes each callback subscribed when it updates the value
\* exactly once, with the value this write stored: so it is when setSignal
\* returns, and on the way no callback is invoked twice or with another value
C12_EachSubscriberOncePerWrite ==
    /\ (out.call.op = "setSignal" /\ out.call.ret.kind # "NotFound")
       => DeliveredAll(out.call)
    /\ \A t \in Threads :
         pc[t] \in {"notify", "callback"} =>
            /\ \A id \in loc[t].atWrite : Invocations(loc[t], id) <= 1
            /\ \A k \in 1..Len(loc[t].delivered) :
                 /\ loc[t].delivered[k][1] \in loc[t].atWrite
                 /\ loc[t].delivered[k][2] = loc[t].value

\* the second write to the Signal has returned after invoking two callbacks,
\* one of which was unsubscribed while the write was notifying
C12_Witness ==
    /\ out.call.op = "setSignal"
    /\ out.call.ret.kind = "void"
    /\ out.call.writeNo = 2
    /\ Cardinality(out.call.atWrite) = 2
    /\ Len(out.call.delivered) = 2
    /\ \E id \in out.call.atWrite :
         id \in DOMAIN heap[out.call.signal].unsubscribed

\* C13 as stated: once unsubscribe(id) has returned, no write invokes the
\* callback registered under id
C13_NeverInvokedAfterUnsubscribe ==
    [][\A t \in Threads :
          (pc[t] = "callback" /\ pc'[t] # "callback")
          => loc[t].cb \notin DOMAIN heap[loc[t].signal].unsubscribed]_vars

\* C13 amended: once unsubscribe(id) has returned, the callback registered
\* under id is invoked only by writes that made their version, and took
\* their copy of the subscribers, before the unsubscribe held the lock: no
\* write that updates the value after the unsubscribe invokes it
C13_NotInvokedByLaterWrites ==
    [][\A t \in Threads :
          (pc[t] = "callback" /\ pc'[t] # "callback")
          => LET s == heap[loc[t].signal]
             IN  loc[t].cb \in DOMAIN s.unsubscribed
                 => loc[t].writeNo <= s.unsubscribed[loc[t].cb]]_vars

\* a write that stored its value after an unsubscribe has returned having
\* invoked the callback that is still subscribed and not the removed one
C13_Witness ==
    /\ out.call.op = "setSignal"
    /\ out.call.ret.kind = "void"
    /\ Len(out.call.delivered) = 1
    /\ \E id \in DOMAIN heap[out.call.signal].unsubscribed :
         /\ heap[out.call.signal].unsubscribed[id] < out.call.writeNo
         /\ Invocations(out.call, id) = 0

\* C14: a write one of whose callbacks throws still returns normally to its
\* caller, having replaced the value, made the version one more than it was
\* and invoked every callback subscribed at the write once with the new value
C14_FailingCallbackIsIsolated ==
    (/\ out.call.op = "setSignal"
     /\ out.call.signal # NoRef
     /\ \E id \in DOMAIN out.call.subscribersCopy :
          Invoke(out.call.subscribersCopy[id]) = "throws")
    => /\ out.call.ret = RetVoid
       /\ out.call.currentValue = out.call.value
       /\ out.call.writeNo = out.call.versionBefore + 1
       /\ heap[out.call.signal].version_ >= out.call.writeNo
       /\ DOMAIN out.call.subscribersCopy = out.call.atWrite
       /\ DeliveredAll(out.call)

\* a write has returned whose first callback threw and whose second callback,
\* a returning one, was invoked after it
C14_Witness ==
    /\ out.call.op = "setSignal"
    /\ out.call.ret = RetVoid
    /\ Len(out.call.delivered) = 2
    /\ out.call.subscribersCopy[out.call.delivered[1][1]] = "throws"
    /\ out.call.subscribersCopy[out.call.delivered[2][1]] = "returns"
    /\ out.call.delivered[2][2] = SignalValueString("hello")

\* C18: subscribe never fails, and the ids it returns on one Signal are
\* strictly increasing in the order the calls held the lock, so pairwise
\* different, whether or not an unsubscribe has removed an earlier one
C18_SubscriptionIdsIncrease ==
    /\ \A r \in DOMAIN heap :
         \A i \in 1..Len(heap[r].handed), j \in 1..Len(heap[r].handed) :
            i < j => heap[r].handed[i] < heap[r].handed[j]
    /\ out.call.op = "subscribe" =>
         /\ out.call.ret.kind = "num"
         /\ out.call.ret.num = heap[out.call.signal].handed[Len(heap[out.call.signal].handed)]
         /\ out.call.ret.num \in DOMAIN heap[out.call.signal].subscribers_

\* the second subscribe has returned 1 after the id 0 was unsubscribed, while
\* the other thread waits for the lock of the same Signal
C18_Witness ==
    /\ out.call.op = "subscribe"
    /\ out.call.ret.num = 1
    /\ heap[out.call.signal].handed = <<0, 1>>
    /\ 0 \in DOMAIN heap[out.call.signal].unsubscribed
    /\ \E u \in Threads : pc[u] = "lockEntry" /\ loc[u].signal = out.call.signal

\* C19: unsubscribe with an id that is not in the subscriber map returns
\* normally and changes nothing of the Signal but the lock it gives back:
\* subscribers, next id, value and version stay, and the callbacks still
\* subscribed are invoked by the writes that follow
C19_UnknownUnsubscribeChangesNothing ==
    [][/\ \A t \in Threads :
            (/\ pc[t] = "unsubscribe"
             /\ pc'[t] = "idle"
             /\ loc[t].subId \notin DOMAIN heap[loc[t].signal].subscribers_)
            => /\ out'.call.ret = RetVoid
               /\ heap' = Unlock(heap, t)
       /\ (out'.call.op = "setSignal" /\ out'.call.ret.kind # "NotFound")
          => DeliveredAll(out'.call)]_vars

\* an unsubscribe of an id that was removed before the last write has just
\* returned, and another callback is still subscribed
C19_Witness ==
    /\ out.call.op = "unsubscribe"
    /\ out.call.subId \in DOMAIN heap[out.call.signal].unsubscribed
    /\ heap[out.call.signal].unsubscribed[out.call.subId] < heap[out.call.signal].version_
    /\ DOMAIN heap[out.call.signal].subscribers_ # {}

\* C17: a Signal's version is 0 when the Signal is made, and every step
\* leaves it as it is or makes it one more; it changes in the increment of a
\* setValue on that Signal and in no other step, and that step always
\* changes it
C17_VersionNeverDecreases ==
    [][\A r \in DOMAIN heap' :
          IF r \notin DOMAIN heap
          THEN heap'[r].version_ = 0
          ELSE LET bumps == {t \in Threads : /\ pc[t] = "setValue_bump"
                                             /\ loc[t].signal = r
                                             /\ pc'[t] = "notify"}
               IN  IF bumps = {}
                   THEN heap'[r].version_ = heap[r].version_
                   ELSE heap'[r].version_ = heap[r].version_ + 1]_vars

\* getSignalVersion has just returned 2 for a Signal that a setSignal of the
\* other thread wrote last
C17_Witness ==
    /\ out.call.op = "getSignalVersion"
    /\ out.call.ret = RetNum(2)
    /\ heap[out.call.signal].written.by \in Threads \ {out.thread}

\* C16: deleteSignal with an id that is not in the map returns normally and
\* changes nothing: the ids present and their number, and every Signal's
\* value, version and subscribers, are after the call what they were before
C16_DeleteOfAbsentIdChangesNothing ==
    [][\A t \in Threads :
          (/\ InStore(t, "deleteSignal")
           /\ pc'[t] = "idle"
           /\ loc[t].signalId \notin DOMAIN signals_)
          => /\ out'.call.ret = RetVoid
             /\ signals_' = signals_
             /\ Cardinality(DOMAIN signals_') = Cardinality(DOMAIN signals_)
             /\ heap' = heap]_vars

\* deleteSignal has just returned for the id no createSignal returned while
\* a Signal that has been written is in the map
C16_Witness ==
    /\ out.call.op = "deleteSignal"
    /\ out.call.signalId = UnknownId
    /\ out.call.ret = RetVoid
    /\ \E id \in DOMAIN signals_ : heap[signals_[id]].version_ = 1

\* C20: getSignalCount returns the number of ids for which hasSignal is
\* true; clear leaves no id in the map, so that the count is 0, and from
\* then on getSignal, setSignal and getSignalVersion throw NotFound for every
\* id handed out before
C20_CountAndClear ==
    [][/\ \A t \in Threads :
            (InStore(t, "getSignalCount") /\ pc'[t] = "idle")
            => out'.call.ret =
                 RetNum(Cardinality({id \in IdArgs : Find(signals_, id) # NoRef}))
       /\ \A t \in Threads :
            (InStore(t, "clear") /\ pc'[t] = "idle")
            => /\ out'.call.ret = RetVoid
               /\ Size(signals_') = 0
               /\ \A id \in Range(issued) : Find(signals_', id) = NoRef
       /\ \A id \in Range(issued) \ DOMAIN signals_ :
            /\ id \notin DOMAIN signals_'
            /\ \A t \in Threads :
                 (/\ pc[t] = "inStore"
                  /\ loc[t].op \in {"getSignal", "setSignal", "getSignalVersion"}
                  /\ loc[t].signalId = id
                  /\ pc'[t] # "inStore")
                 => out'.call.ret = NotFound(id)]_vars

\* getSignalCount has just returned 0 after two Signals were created and the
\* map cleared, while a setSignal that found one of them is still in flight
C20_Witness ==
    /\ out.call.op = "getSignalCount"
    /\ out.call.ret = RetNum(0)
    /\ Len(issued) = 2
    /\ \A id \in Range(issued) : Find(signals_, id) = NoRef
    /\ \E u \in Threads : loc[u].op = "setSignal" /\ loc[u].signal # NoRef

\* every Signal a call has retained is alive
RetainedAlive ==
    \A t \in Threads :
        /\ loc[t].signal # NoRef => loc[t].signal \in DOMAIN heap
        /\ Range(loc[t].signalsToUpdate) \subseteq DOMAIN heap

\* the call that has just returned had retained a Signal and completed
\* normally on it
CompletedOnRetained ==
    /\ (out.call.op = "getSignal" /\ out.call.signal # NoRef)
       => out.call.ret.kind = "value"
    /\ (out.call.op = "getSignalVersion" /\ out.call.signal # NoRef)
       => out.call.ret.kind = "num"
    /\ (out.call.op = "setSignal" /\ out.call.signal # NoRef)
       => /\ out.call.ret = RetVoid
          /\ out.call.writeNo = out.call.versionBefore + 1
          /\ out.call.currentValue = out.call.value
          /\ DeliveredAll(out.call)
    /\ out.call.op = "batchUpdate"
       => /\ out.call.ret = RetVoid
          /\ out.call.applied = out.call.signalsToUpdate

\* C15: a getSignal, setSignal, getSignalVersion or batchUpdate that retained
\* its Signal before deleteSignal or clear took the entry out goes on with a
\* live Signal and completes normally on it, the write applied and its
\* subscribers notified, and the id taken out stays out of the map
C15_InFlightCallOutlivesDelete ==
    [][/\ RetainedAlive'
       /\ CompletedOnRetained'
       /\ \A t \in Threads :
            (pc[t] = "getValue" /\ pc'[t] = "idle")
            => out'.call.ret = RetValue(heap[loc[t].signal].value_)
       /\ \A t \in Threads :
            (pc[t] = "getVersion" /\ pc'[t] = "idle")
            => out'.call.ret = RetNum(heap[loc[t].signal].version_)
       /\ \A id \in Range(issued) \ DOMAIN signals_ : id \notin DOMAIN signals_']_vars

\* a setSignal has just returned normally, having invoked the subscriber,
\* for an id that was taken out of the map after the call had retained its
\* Signal: the Signal went away with the call's reference
C15_Witness ==
    /\ out.call.op = "setSignal"
    /\ out.call.ret = RetVoid
    /\ Len(out.call.delivered) = 1
    /\ out.call.signalId \notin DOMAIN signals_
    /\ out.call.signal \notin DOMAIN heap

\* C11: under fair scheduling every call a thread has started returns or
\* throws, whatever the other thread does and also when a callback calls
\* back into the Signal that notifies it or into the Store
C11_EveryCallReturns ==
    \A t \in Threads : (pc[t] # "idle") ~> (pc[t] = "idle")

\* a callback invoked by setValue waits for the lock of the Signal that is
\* notifying it, which the other thread holds
C11_Witness ==
    \E t \in Threads, u \in Threads :
        /\ t # u
        /\ pc[t] = "cb_lockEntry"
        /\ loc[t].subscribersCopy[loc[t].cb] \in {"getValue", "subscribe", "unsubscribe"}
        /\ heap[loc[t].signal].mutex_ = u

\* C21: a callback is notified in write order: every invocation of a callback
\* comes from a write that made a higher version than the write that invoked
\* it before; so, whenever no write to the Signal is in progress, a callback
\* that is subscribed and has been invoked was invoked last by the latest
\* write, with the value the Signal holds
C21_NotifiedInWriteOrder ==
    /\ [][\A t \in Threads :
             (pc[t] = "callback" /\ pc'[t] # "callback")
             => LET s == heap[loc[t].signal]
                IN  loc[t].cb \in DOMAIN s.notified
                    => s.notified[loc[t].cb].n < loc[t].writeNo]_vars
    /\ [](\A r \in DOMAIN heap :
             Writers(r) = {}
             => \A id \in DOMAIN heap[r].subscribers_ \cap DOMAIN heap[r].notified :
                   /\ heap[r].notified[id].n = heap[r].version_
                   /\ heap[r].notified[id].val = heap[r].value_)

\* the step is one of thread t inside setSignal, its call and return included
StepOfSetSignal(t) ==
    /\ loc[t].op = "setSignal" \/ loc'[t].op = "setSignal"
    /\ pc'[t] # pc[t] \/ loc'[t] # loc[t]

\* C22: every step of a setSignal leaves the ids registered and the Signals
\* they name, the id counter, the subscriber map and subscription counter of
\* its target, and every other Signal as they were; its target is the Signal
\* registered under its id; and the callbacks it invokes were subscribed to
\* its target: the callbacks of other Signals are not invoked
C22_WriteTouchesOnlyItsTarget ==
    [][\A t \in Threads :
          StepOfSetSignal(t) =>
             /\ signals_' = signals_
             /\ nextSignalId_' = nextSignalId_
             /\ issued' = issued
             /\ (pc[t] = "inStore" /\ pc'[t] # "idle")
                   => loc'[t].signal = signals_[loc[t].signalId]
             /\ \A r \in DOMAIN heap :
                   IF r # loc[t].signal
                   THEN r \in DOMAIN heap' /\ heap'[r] = heap[r]
                   ELSE r \in DOMAIN heap' =>
                           /\ heap'[r].subscribers_ = heap[r].subscribers_
                           /\ heap'[r].nextSubscriberId_ = heap[r].nextSubscriberId_
             /\ (pc[t] = "callback" /\ pc'[t] # "callback")
                   => loc[t].cb \in Range(heap[loc[t].signal].handed)]_vars

\* setSignal on the first Signal has returned after invoking its callback,
\* while a second Signal with a subscriber of its own is registered and
\* still has its initial value, version 0 and no invocation
C22_Witness ==
    /\ out.call.op = "setSignal"
    /\ out.call.ret = RetVoid
    /\ Len(out.call.delivered) = 1
    /\ \E id \in DOMAIN signals_ :
         LET r == signals_[id]
         IN  /\ r # out.call.signal
             /\ heap[r].subscribers_ # EmptyMap
             /\ heap[r].value_ = SignalValueString("hello")
             /\ heap[r].version_ = 0
             /\ heap[r].notified = EmptyMap
             /\ heap[out.call.signal].notified # EmptyMap

====
